---------------------------- MODULE Spec2Model ----------------------------
(***************************************************************************)
(* A model of the TEM grain-boundary analysis notebook (analysis.ipynb)    *)
(* and of the container workflow (build_docker_image.yaml).                *)
(*                                                                         *)
(* Numbers.  Atomic columns sit on a hexagonal lattice, so coordinates and *)
(* lengths are kept exactly in Z[sqrt 3]: the pair <<p, q>> is the real    *)
(* p + q*sqrt(3).  A point is [x, y, h], the place (x, y + h*sqrt(3)).     *)
(* A float of the feature array is a triple <<p, q, d>>, the real          *)
(* (p + q*sqrt(3)) / d in lowest terms; <<0, 0, 0>> is NaN (0/0).          *)
(* Angles are in degrees (2*pi is 360).  A standard deviation is stored    *)
(* as its square (the variance): the root of an element of Q(sqrt 3) is    *)
(* in general not in Q(sqrt 3).  Floating-point rounding is not modelled.  *)
(* Array indices are Python's (0-based): At(s, i) is s[i].                 *)
(***************************************************************************)
EXTENDS Integers, Sequences, FiniteSets, TLC

----------------------------------------------------------------------------
(* Exact arithmetic *)

Abs(n) == IF n < 0 THEN -n ELSE n

RECURSIVE Gcd(_, _)
Gcd(a, b) == IF b = 0 THEN Abs(a) ELSE Gcd(Abs(b), Abs(a) % Abs(b))

(* The sign of p + q*sqrt(3); it is 0 only for p = q = 0. *)
Sign3(p, q) ==
    IF p = 0 /\ q = 0 THEN 0
    ELSE IF p >= 0 /\ q >= 0 THEN 1
    ELSE IF p <= 0 /\ q <= 0 THEN -1
    ELSE IF p > 0 THEN (IF p * p > 3 * q * q THEN 1 ELSE -1)
    ELSE (IF 3 * q * q > p * p THEN 1 ELSE -1)

Less3(a, b) == Sign3(a[1] - b[1], a[2] - b[2]) < 0

Mul3(a, b) == <<a[1] * b[1] + 3 * a[2] * b[2], a[1] * b[2] + a[2] * b[1]>>

RECURSIVE Sum3(_)
Sum3(s) == IF s = <<>> THEN <<0, 0>>
           ELSE LET rest == Sum3(Tail(s))
                IN  <<Head(s)[1] + rest[1], Head(s)[2] + rest[2]>>

NaN == <<0, 0, 0>>

(* (p + q*sqrt 3) / d in lowest terms, d > 0 *)
Frac(p, q, d) ==
    LET g == Gcd(Gcd(p, q), d)
    IN  <<p \div g, q \div g, d \div g>>

At(s, i) == s[i + 1]

Indices(s) == 0 .. (Len(s) - 1)

Range(s) == {s[i] : i \in 1 .. Len(s)}

----------------------------------------------------------------------------
(* numpy *)

(* np.mean: the mean of an empty array is NaN (with a RuntimeWarning) *)
Mean(s) ==
    IF s = <<>> THEN NaN
    ELSE LET sum == Sum3(s) IN Frac(sum[1], sum[2], Len(s))

(* np.std, kept as the variance: mean(x^2) - mean(x)^2; NaN when empty *)
Std(s) ==
    IF s = <<>> THEN NaN
    ELSE LET n  == Len(s)
             sq == Sum3([j \in 1 .. n |-> Mul3(s[j], s[j])])
             sum == Sum3(s)
             ss == Mul3(sum, sum)
         IN  Frac(n * sq[1] - ss[1], n * sq[2] - ss[2], n * n)

(* the least element's position, ties to the first *)
ArgMin(s) ==
    CHOOSE j \in 1 .. Len(s) :
        \A i \in 1 .. Len(s) : ~Less3(s[i], s[j]) /\ (i < j => Less3(s[j], s[i]))

ArgMax(s) ==
    CHOOSE j \in 1 .. Len(s) :
        \A i \in 1 .. Len(s) : ~Less3(s[j], s[i]) /\ (i < j => Less3(s[i], s[j]))

Remove(s, j) == [i \in 1 .. (Len(s) - 1) |-> IF i < j THEN s[i] ELSE s[i + 1]]

(* np.sort *)
RECURSIVE Sort(_)
Sort(s) == IF s = <<>> THEN <<>>
           ELSE LET j == ArgMin(s) IN <<s[j]>> \o Sort(Remove(s, j))

(* np.diff: the consecutive differences, one fewer than the elements *)
Diff(s) ==
    [j \in 1 .. (IF Len(s) = 0 THEN 0 ELSE Len(s) - 1) |->
        <<s[j + 1][1] - s[j][1], s[j + 1][2] - s[j][2]>>]

(* np.linalg.norm of (dx, dy + dh*sqrt 3), exact where the direction is a  *)
(* multiple of 30 degrees (every offset between lattice sites up to the    *)
(* third shell); no other offset is evaluated.                             *)
Norm(v) ==
    CASE v.y = 0 /\ v.h = 0 -> <<Abs(v.x), 0>>
      [] v.x = 0 -> IF Sign3(v.y, v.h) >= 0 THEN <<v.y, v.h>> ELSE <<-v.y, -v.h>>
      [] v.y = 0 /\ Abs(v.h) = Abs(v.x) -> <<2 * Abs(v.x), 0>>
      [] v.y = 0 /\ 3 * Abs(v.h) = Abs(v.x) -> <<0, 2 * Abs(v.h)>>

(* np.arctan2(dy + dh*sqrt 3, dx) in degrees, in (-180, 180], on the same  *)
(* directions; arctan2(0, 0) is 0.                                         *)
Arctan2(v) ==
    CASE v.y = 0 /\ v.h = 0 -> IF v.x >= 0 THEN 0 ELSE 180
      [] v.x = 0 -> IF Sign3(v.y, v.h) > 0 THEN 90 ELSE -90
      [] v.y = 0 /\ v.h = v.x -> IF v.x > 0 THEN 60 ELSE -120
      [] v.y = 0 /\ v.h = -v.x -> IF v.x > 0 THEN -60 ELSE 120
      [] v.y = 0 /\ 3 * v.h = v.x -> IF v.x > 0 THEN 30 ELSE -150
      [] v.y = 0 /\ 3 * v.h = -v.x -> IF v.x > 0 THEN -30 ELSE 150

----------------------------------------------------------------------------
(* scipy.spatial.cKDTree *)

(* the squared distance of two points *)
Dist2(p, c) ==
    LET dx == p.x - c.x
        dy == p.y - c.y
        dh == p.h - c.h
    IN  <<dx * dx + dy * dy + 3 * dh * dh, 2 * dy * dh>>

(* Hits are sorted by distance; the order of equidistant hits is left open *)
(* by scipy and taken here to be that of the index.                        *)
Nearer(tree, q, i, j) ==
    \/ Less3(Dist2(At(tree, i), q), Dist2(At(tree, j), q))
    \/ Dist2(At(tree, i), q) = Dist2(At(tree, j), q) /\ i < j

RECURSIVE ByDistance(_, _, _)
ByDistance(tree, q, S) ==
    IF S = {} THEN <<>>
    ELSE LET m == CHOOSE i \in S : \A j \in S \ {i} : Nearer(tree, q, i, j)
         IN  <<m>> \o ByDistance(tree, q, S \ {m})

(* The points of the tree strictly nearer to q than distance_upper_bound. *)
WithinBound(tree, q, distance_upper_bound) ==
    {i \in Indices(tree) :
        Less3(Dist2(At(tree, i), q), <<distance_upper_bound * distance_upper_bound, 0>>)}

(* tree.query(q, k, distance_upper_bound)[1] for one point q: the indices  *)
(* of the k nearest hits, missing ones given as tree.n.                    *)
Query(tree, q, k, distance_upper_bound) ==
    LET hits == ByDistance(tree, q, WithinBound(tree, q, distance_upper_bound))
    IN  [j \in 1 .. k |-> IF j <= Len(hits) THEN hits[j] ELSE Len(tree)]


----------------------------------------------------------------------------
(* get_nn_features *)

NoRaise == "none"

(* line 366: np.array(np.sort(angles), angles.min()+2*np.pi).  The second  *)
(* positional argument of np.array is dtype; the numpy float64 scalar      *)
(* given there is read through its .dtype attribute as float64, so the     *)
(* result is the sorted angles alone: nothing is appended.  angles.min()   *)
(* is evaluated first and raises ValueError on an empty array (the caller  *)
(* below takes that branch).                                               *)
SortedAngles(angles) == Sort(angles)

(* the index rows, the first column kept *)
NearestNeighborIndicesWithSelf(tree, coordinates, max_distance, k) ==
    [p \in 1 .. Len(coordinates) |-> Query(tree, coordinates[p], k, max_distance)]

(* line 349: the index rows, the first column (the nearest hit) dropped *)
NearestNeighborIndices(tree, coordinates, max_distance, k) ==
    [p \in 1 .. Len(coordinates) |->
        Tail(Query(tree, coordinates[p], k, max_distance))]

(* line 353: nns[nns != coordinates.shape[0]] *)
DropNoPoint(nns, coordinates) ==
    SelectSeq(nns, LAMBDA i : i # Len(coordinates))

(* lines 353-381, one pass of the loop: the row of point_index, or the     *)
(* exception the pass raises.                                              *)
FeatureRow(coordinates, point_index, row) ==
    LET nns == DropNoPoint(row, coordinates)
    IN  IF \E j \in 1 .. Len(nns) : nns[j] >= Len(coordinates)
        THEN [raised |-> "IndexError", row |-> <<>>, angle_increments |-> <<>>]
        ELSE
        LET point_coords == At(coordinates, point_index)
            difference_vectors ==
                [j \in 1 .. Len(nns) |->
                    [x |-> At(coordinates, nns[j]).x - point_coords.x,
                     y |-> At(coordinates, nns[j]).y - point_coords.y,
                     h |-> At(coordinates, nns[j]).h - point_coords.h]]
            lengths == [j \in 1 .. Len(nns) |-> Norm(difference_vectors[j])]
            angles  == [j \in 1 .. Len(nns) |->
                           <<Arctan2(difference_vectors[j]) % 360, 0>>]
        IN  IF angles = <<>>
            THEN [raised |-> "ValueError", row |-> <<>>, angle_increments |-> <<>>]
            ELSE
            LET sorted_angles    == SortedAngles(angles)
                angle_increments == Diff(sorted_angles)
                min_angle        == angles[ArgMin(angles)]
                min_length       == lengths[ArgMin(lengths)]
                max_length       == lengths[ArgMax(lengths)]
            IN  [raised |-> NoRaise,
                 angle_increments |-> angle_increments,
                 row |-> << Mean(lengths),
                            Std(lengths),
                            Mean(angle_increments),
                            Std(angle_increments),
                            <<min_angle[1], 0, 1>>,
                            <<Len(nns), 0, 1>>,
                            <<min_length[1], min_length[2], 1>>,
                            <<max_length[1], max_length[2], 1>> >>]

(* lines 351-381, the loop from pass p on: rows holds the rows filled in   *)
(* so far; a pass that raises ends the call.  passes is the number of      *)
(* passes entered.                                                         *)
RECURSIVE FeatureLoop(_, _, _, _)
FeatureLoop(coordinates, nearest_neighbor_indices, p, rows) ==
    IF p > Len(coordinates)
    THEN [raised |-> NoRaise, value |-> rows, passes |-> Len(coordinates)]
    ELSE LET pass == FeatureRow(coordinates, p - 1, nearest_neighbor_indices[p])
         IN  IF pass.raised # NoRaise
             THEN [raised |-> pass.raised, value |-> <<>>, passes |-> p]
             ELSE FeatureLoop(coordinates, nearest_neighbor_indices, p + 1,
                              Append(rows, pass.row))

(* lines 347-382.  With k = 1 the query squeezes its last dimension and    *)
(* [:, 1:] raises IndexError.  features is local: a call that raises       *)
(* leaves nothing behind.                                                  *)
GetNNFeatures(tree, coordinates, max_distance, k) ==
    IF k = 1 THEN [raised |-> "IndexError", value |-> <<>>, passes |-> 0]
    ELSE FeatureLoop(coordinates,
                     NearestNeighborIndices(tree, coordinates, max_distance, k),
                     1, <<>>)

(* the column of a feature row, numbered as in the notebook (0..7) *)
Column(row, c) == row[c + 1]

----------------------------------------------------------------------------
(* Point sets *)

(* the site a*(10, 0) + b*(5, 5*sqrt 3) of the hexagonal lattice of        *)
(* spacing 10, in pixels (x, y), the origin of the lattice at (20, 18)     *)
Site(a, b) == [x |-> 20 + 10 * a + 5 * b, y |-> 18, h |-> 5 * b]

(* the lattice distance of site (a, b) from the origin, in rings *)
Ring(a, b) == IF a * b >= 0 THEN Abs(a + b) ELSE (IF Abs(a) > Abs(b) THEN Abs(a) ELSE Abs(b))

(* the centre and its six neighbours at 0, 60, ..., 300 degrees *)
Hexagon ==
    << Site(0, 0), Site(1, 0), Site(0, 1), Site(-1, 1),
       Site(-1, 0), Site(0, -1), Site(1, -1) >>


RECURSIVE SubSeqOf(_, _)
(* the elements of s at the positions in S, in the order of s *)
SubSeqOf(s, S) ==
    IF s = <<>> THEN <<>>
    ELSE LET rest == SubSeqOf(Tail(s), {i - 1 : i \in S \ {1}})
         IN  IF 1 \in S THEN <<Head(s)>> \o rest ELSE rest

(* the sites within R rings of the origin, row by row *)
RECURSIVE SitesInOrder(_)
SitesInOrder(S) ==
    IF S = {} THEN <<>>
    ELSE LET m == CHOOSE s \in S : \A o \in S :
                      s[2] < o[2] \/ (s[2] = o[2] /\ s[1] <= o[1])
         IN  <<Site(m[1], m[2])>> \o SitesInOrder(S \ {m})

PatchSites(R) == {s \in (-R .. R) \X (-R .. R) : Ring(s[1], s[2]) <= R}

Patch(R) == SitesInOrder(PatchSites(R))

(* two full hexagons side by side: the sites (0,0) and (1,0) with all      *)
(* their neighbours                                                        *)
TwoHexagons ==
    SitesInOrder({s \in (-1 .. 2) \X (-1 .. 1) :
                    Ring(s[1], s[2]) <= 1 \/ Ring(s[1] - 1, s[2]) <= 1})

----------------------------------------------------------------------------
(* Program constants *)

DefaultMaxDistance == 12
DefaultK == 10
CellMaxDistance == 11
MinNeighbors == 5
n_clusters == 5
half_wx == 100
pca_components == 8
ExpectedHash == "777a5f480c5b10288bb9c83c12be440408e7dd25620adc56b5fad27bbfc65d05"

(* Bounds of the model *)

MaxPoints == 3
LabelBound == 2
MaxTag == 3
MaxFetches == 2

----------------------------------------------------------------------------
(* Inputs *)

(* what may be at data/dataset.emd: nothing, the published dataset,        *)
(* another well-formed .emd file, or a file cut short                      *)
FileStates == {"absent", "genuine", "other", "partial"}

(* the image shapes (rows, columns) of the selected frame *)
ImageShapes == {<<36, 46>>, <<36, 320>>}

(* the two-ring patch and one site of the third ring: 20 points, 8 of     *)
(* them with at least 5 neighbours                                         *)
Island == SitesInOrder(PatchSites(2) \cup {<<2, 1>>})

(* the point sets peak finding may return, all within a sub-image of 36    *)
(* rows and 46 columns: every non-empty part of the hexagon, two hexagons  *)
(* side by side, the two-ring patch, and the island                        *)
Detections ==
    {SubSeqOf(Hexagon, S) : S \in (SUBSET (1 .. 7)) \ {{}}}
    \cup {TwoHexagons, Patch(2), Island}

(* the lattices of the end-to-end scenario: the patches of one to three    *)
(* rings (7, 19 and 37 points) and the 37-point patch less one point       *)
Lattices ==
    {Patch(1), Patch(2), Patch(3)}
    \cup {SubSeqOf(Patch(3), (1 .. 37) \ {i}) : i \in 1 .. 37}

(* the point sets of an interactive session: the parts of the first        *)
(* MaxPoints points of the hexagon, and the hexagon                        *)
SessionSets ==
    {SubSeqOf(Hexagon, S) : S \in SUBSET (1 .. MaxPoints)} \cup {Hexagon}

Radii == {10, DefaultMaxDistance, 18}

Caps == {1, 2, DefaultK}

----------------------------------------------------------------------------
(* Floats of the feature array: <<p, q, d>> is (p + q*sqrt 3)/d, d > 0 *)

IsNaN(u) == u[3] = 0

LessF(u, v) == Sign3(u[1] * v[3] - v[1] * u[3], u[2] * v[3] - v[2] * u[3]) < 0

SubF(u, v) == Frac(u[1] * v[3] - v[1] * u[3], u[2] * v[3] - v[2] * u[3], u[3] * v[3])

(* u / v for v # 0; for an irrational v, multiply by the conjugate of its   *)
(* numerator                                                               *)
DivF(u, v) ==
    LET num == IF v[2] = 0 THEN <<u[1], u[2]>>
               ELSE Mul3(<<u[1], u[2]>>, <<v[1], -v[2]>>)
        den == IF v[2] = 0 THEN u[3] * v[1]
               ELSE u[3] * (v[1] * v[1] - 3 * v[2] * v[2])
    IN  IF den > 0 THEN Frac(num[1] * v[3], num[2] * v[3], den)
        ELSE Frac(-num[1] * v[3], -num[2] * v[3], -den)

ColumnMin(X, c) ==
    Column(X[CHOOSE i \in 1 .. Len(X) :
                 \A o \in 1 .. Len(X) : ~LessF(Column(X[o], c), Column(X[i], c))], c)

ColumnMax(X, c) ==
    Column(X[CHOOSE i \in 1 .. Len(X) :
                 \A o \in 1 .. Len(X) : ~LessF(Column(X[i], c), Column(X[o], c))], c)

(* sklearn's MinMaxScaler().fit_transform(X) on a non-empty X without NaN: *)
(* each column to (x - min) / (max - min), a constant column to 0          *)
MinMaxScale(X) ==
    LET lo == [c \in 0 .. 7 |-> ColumnMin(X, c)]
        hi == [c \in 0 .. 7 |-> ColumnMax(X, c)]
    IN  [i \in 1 .. Len(X) |->
            [c1 \in 1 .. 8 |->
                IF hi[c1 - 1] = lo[c1 - 1] THEN <<0, 0, 1>>
                ELSE DivF(SubF(X[i][c1], lo[c1 - 1]), SubF(hi[c1 - 1], lo[c1 - 1]))]]

(* X[mask] for a boolean mask: the rows where the mask holds, in order *)
Masked(X, mask) == SubSeqOf(X, {i \in 1 .. Len(X) : mask[i]})

(* np.invert(mask) *)
Invert(mask) == [i \in 1 .. Len(mask) |-> ~mask[i]]

(* a[start:stop] on an axis of n entries: how many entries it keeps *)
SliceStart(start, n) == IF start < 0 THEN (IF start + n < 0 THEN 0 ELSE start + n)
                        ELSE (IF start > n THEN n ELSE start)

SliceLen(start, stop, n) ==
    LET lo == SliceStart(start, n)
        hi == SliceStart(stop, n)
    IN  IF hi > lo THEN hi - lo ELSE 0

(* line 256: the columns the slice half_x-half_wx:half_y+half_wx takes    *)
(* of an image of shape (H, W): from the first up to, not including, the   *)
(* second; none when the second is not beyond the first                    *)
SubImageColumns(shape) ==
    LET half_x == shape[2] \div 2
        half_y == shape[1] \div 2
    IN  <<SliceStart(half_x - half_wx, shape[2]),
          SliceStart(half_y + half_wx, shape[2])>>

(* lines 251-256: the shape of sub_image for an image of shape (H, W) *)
SubImageShape(shape) ==
    LET half_x == shape[2] \div 2
        half_y == shape[1] \div 2
    IN  <<shape[1], SliceLen(half_x - half_wx, half_y + half_wx, shape[2])>>

(* sha256sum data/dataset.emd | awk '{print $1}': the digest of what is    *)
(* there; sha256sum prints nothing for a missing file                      *)
Sha256Sum(content) ==
    CASE content = "absent"  -> ""
      [] content = "genuine" -> ExpectedHash
      [] content = "other"   -> "digest of another file"
      [] content = "partial" -> "digest of a partial file"

(* the index of the point of the tree nearest to q among those from i     *)
(* on and best, which lies at squared distance d; of equidistant points    *)
(* the first                                                               *)
RECURSIVE NearestFrom(_, _, _, _, _)
NearestFrom(tree, q, i, best, d) ==
    IF i >= Len(tree) THEN best
    ELSE LET di == Dist2(At(tree, i), q)
         IN  IF Less3(di, d) THEN NearestFrom(tree, q, i + 1, i, di)
                             ELSE NearestFrom(tree, q, i + 1, best, d)

(* the same for the farthest point *)
RECURSIVE FarthestFrom(_, _, _, _, _)
FarthestFrom(tree, q, i, best, d) ==
    IF i >= Len(tree) THEN best
    ELSE LET di == Dist2(At(tree, i), q)
         IN  IF Less3(d, di) THEN FarthestFrom(tree, q, i + 1, i, di)
                             ELSE FarthestFrom(tree, q, i + 1, best, d)

(* the point of the tree farthest from q *)
FarthestPoint(tree, q) == FarthestFrom(tree, q, 1, 0, Dist2(At(tree, 0), q))

(* tree.query(q)[1] with the defaults (k = 1, no upper bound) *)
NearestPoint(tree, q) == NearestFrom(tree, q, 1, 0, Dist2(At(tree, 0), q))

(* lines 570-575: the label of every pixel (row y, column x) *)
LabelImage(points, labels, shape) ==
    [y1 \in 1 .. shape[1] |->
        [x1 \in 1 .. shape[2] |->
            At(labels, NearestPoint(points, [x |-> x1 - 1, y |-> y1 - 1, h |-> 0]))]]

----------------------------------------------------------------------------
(* State *)

VARIABLES
    pc,                   \* the notebook cell to run next
    error,                \* the exception that ended the run, or NoRaise
    file,                 \* what is at data/dataset.emd
    stdout,               \* the lines the bash cells have printed
    fetches,              \* the HTTP GETs issued so far
    data,                 \* the file content hs.load read ("none" before)
    image_shape,          \* image.data.shape
    sub_image_shape,      \* sub_image.shape
    atom_positions,       \* sublattice.atom_positions
    columns,              \* the point set of the tree cell
    tree_c,               \* the point set the shared index was built from
    features,             \* the array of cell 384
    off_edge,             \* the boolean mask of line 412
    filtered_features,
    filtered_coordinates,
    not_classified,
    scaled_features,
    labels_,              \* cluster_model_1.labels_
    labeled_image,
    call,                 \* the arguments of the session's call cell
    ret,                  \* what its last execution returned or raised
    queried,              \* the point set of the index that execution queried
    lookups,              \* the index arrays it used at line 355, pass by pass
    increments,           \* the angle_increments of the rows it returned
    repo_tags,            \* the tags of the git repository
    latest_release,       \* tag_name of the latest GitHub release, NoTag if none
    pending,              \* the tags whose push has triggered a run not yet made
    registry,             \* the pushes to the registry: image tag and ref built
    last_run              \* the last workflow run

vars == << pc, error, file, stdout, fetches, data, image_shape, sub_image_shape,
           atom_positions, columns, tree_c, features, off_edge,
           filtered_features, filtered_coordinates, not_classified,
           scaled_features, labels_, labeled_image, call, ret, queried,
           lookups, increments, repo_tags, latest_release, pending, registry, last_run >>

notebookVars == << pc, error, file, stdout, fetches, data, image_shape,
                   sub_image_shape, atom_positions, columns, tree_c, features,
                   off_edge, filtered_features, filtered_coordinates,
                   not_classified, scaled_features, labels_, labeled_image >>

sessionVars == << call, ret, queried, lookups, increments >>

workflowVars == << repo_tags, latest_release, pending, registry, last_run >>

NoResult == [raised |-> "not run", value |-> <<>>, passes |-> 0]

NoCall == [coordinates |-> <<>>, max_distance |-> 0, k |-> 0]

NoTag == <<"", 0>>

NoRun == [trigger |-> NoTag, releasetag |-> NoTag, outcome |-> "none", published |-> {}]

(* nothing computed, nothing called, nothing pushed *)
Blank ==
    /\ error = NoRaise
    /\ stdout = <<>>
    /\ fetches = 0
    /\ data = "none"
    /\ image_shape = <<0, 0>>
    /\ sub_image_shape = <<0, 0>>
    /\ features = <<>>
    /\ off_edge = <<>>
    /\ filtered_features = <<>>
    /\ filtered_coordinates = <<>>
    /\ not_classified = <<>>
    /\ scaled_features = <<>>
    /\ labels_ = <<>>
    /\ labeled_image = <<>>
    /\ ret = NoResult
    /\ queried = <<>>
    /\ lookups = <<>>
    /\ increments = <<>>
    /\ repo_tags = {}
    /\ latest_release = NoTag
    /\ pending = {}
    /\ registry = <<>>
    /\ last_run = NoRun

----------------------------------------------------------------------------
(* The notebook, cell by cell (Run All) *)

Raise(exception) ==
    /\ error' = exception
    /\ pc' = "aborted"

(* the download cell, were it to fetch whether or not the file is there *)
DownloadCellAlways ==
    /\ pc = "download"
    /\ stdout' = Append(stdout, "Data not yet present, downloading")
    /\ fetches' = fetches + 1
    /\ \E received \in FileStates :
          /\ file' = received
          /\ IF received \in {"genuine", "other"}
             THEN pc' = "hash" /\ UNCHANGED error
             ELSE Raise("CalledProcessError")
    /\ UNCHANGED << data, image_shape, sub_image_shape, atom_positions,
                    columns, tree_c, features, off_edge, filtered_features,
                    filtered_coordinates, not_classified, scaled_features,
                    labels_, labeled_image, sessionVars, workflowVars >>

(* lines 27-39.  wget -O leaves whatever it received: the dataset, another  *)
(* file when the link serves one, a partial file when the transfer breaks, *)
(* and nothing when wget cannot be run.  In the last two cases wget, the   *)
(* last command of the script, exits non-zero and %%bash raises.           *)
DownloadCell ==
    /\ pc = "download"
    /\ IF file = "absent"
       THEN /\ stdout' = Append(stdout, "Data not yet present, downloading")
            /\ fetches' = fetches + 1
            /\ \E received \in FileStates :
                  /\ file' = received
                  /\ IF received \in {"genuine", "other"}
                     THEN pc' = "hash" /\ UNCHANGED error
                     ELSE Raise("CalledProcessError")
       ELSE /\ stdout' = Append(stdout, "Data already present")
            /\ pc' = "hash"
            /\ UNCHANGED <<file, fetches, error>>
    /\ UNCHANGED << data, image_shape, sub_image_shape, atom_positions,
                    columns, tree_c, features, off_edge, filtered_features,
                    filtered_coordinates, not_classified, scaled_features,
                    labels_, labeled_image, sessionVars, workflowVars >>

(* line 61 *)
WrongHash == "Wrong hash! This may be the wrong file, or it may have been tampered with."

(* the hash cell, were it to enforce the digest: delete the file and stop *)
HashCellEnforcing ==
    /\ pc = "hash"
    /\ IF Sha256Sum(file) = ExpectedHash
       THEN /\ stdout' = Append(stdout, "Hash is ok")
            /\ pc' = "load"
            /\ UNCHANGED <<file, error>>
       ELSE /\ stdout' = Append(stdout, WrongHash)
            /\ file' = "absent"
            /\ Raise("CalledProcessError")
    /\ UNCHANGED << fetches, data, image_shape, sub_image_shape,
                    atom_positions, columns, tree_c, features, off_edge,
                    filtered_features, filtered_coordinates, not_classified,
                    scaled_features, labels_, labeled_image, sessionVars,
                    workflowVars >>

(* lines 55-63: the digest is compared and one of two lines printed; echo  *)
(* is the last command either way, so the cell never raises.               *)
HashCell ==
    /\ pc = "hash"
    /\ stdout' = Append(stdout,
                        IF Sha256Sum(file) = ExpectedHash
                        THEN "Hash is ok"
                        ELSE WrongHash)
    /\ pc' = "load"
    /\ UNCHANGED << error, file, fetches, data, image_shape, sub_image_shape,
                    atom_positions, columns, tree_c, features, off_edge,
                    filtered_features, filtered_coordinates, not_classified,
                    scaled_features, labels_, labeled_image, sessionVars,
                    workflowVars >>

(* line 100: hs.load reads the file; a missing or cut file raises *)
LoadCell ==
    /\ pc = "load"
    /\ IF file \in {"genuine", "other"}
       THEN /\ data' = file
            /\ pc' = "image"
            /\ UNCHANGED error
       ELSE /\ Raise("OSError")
            /\ UNCHANGED data
    /\ UNCHANGED << file, stdout, fetches, image_shape, sub_image_shape,
                    atom_positions, columns, tree_c, features, off_edge,
                    filtered_features, filtered_coordinates, not_classified,
                    scaled_features, labels_, labeled_image, sessionVars,
                    workflowVars >>

(* line 137 on a file that holds no fourth signal *)
ImageCellRaises ==
    /\ pc = "image"
    /\ data = "other"
    /\ Raise("IndexError")
    /\ UNCHANGED << file, stdout, fetches, data, image_shape, sub_image_shape,
                    atom_positions, columns, tree_c, features, off_edge,
                    filtered_features, filtered_coordinates, not_classified,
                    scaled_features, labels_, labeled_image, sessionVars,
                    workflowVars >>

(* line 137: the last frame of the fourth signal *)
ImageCell ==
    /\ pc = "image"
    /\ \E shape \in ImageShapes : image_shape' = shape
    /\ pc' = "localize"
    /\ UNCHANGED << error, file, stdout, fetches, data, sub_image_shape,
                    atom_positions, columns, tree_c, features, off_edge,
                    filtered_features, filtered_coordinates, not_classified,
                    scaled_features, labels_, labeled_image, sessionVars,
                    workflowVars >>

(* lines 250-266: the crop, then peak finding and refinement, whose result *)
(* is any of the detections                                                *)
LocalizeCell ==
    /\ pc = "localize"
    /\ sub_image_shape' = SubImageShape(image_shape)
    /\ \E found \in Detections : atom_positions' = found
    /\ pc' = "tree"
    /\ UNCHANGED << error, file, stdout, fetches, data, image_shape, columns,
                    tree_c, features, off_edge, filtered_features,
                    filtered_coordinates, not_classified, scaled_features,
                    labels_, labeled_image, sessionVars, workflowVars >>

(* lines 305-315 *)
TreeCell ==
    /\ pc = "tree"
    /\ columns' = atom_positions
    /\ tree_c' = atom_positions
    /\ pc' = "features"
    /\ UNCHANGED << error, file, stdout, fetches, data, image_shape,
                    sub_image_shape, atom_positions, features, off_edge,
                    filtered_features, filtered_coordinates, not_classified,
                    scaled_features, labels_, labeled_image, sessionVars,
                    workflowVars >>

(* line 384: features = get_nn_features(columns, max_distance=11) *)
FeaturesCell ==
    /\ pc = "features"
    /\ LET result == GetNNFeatures(tree_c, columns, CellMaxDistance, DefaultK)
       IN  IF result.raised = NoRaise
           THEN /\ features' = result.value
                /\ pc' = "filter"
                /\ UNCHANGED error
           ELSE /\ Raise(result.raised)
                /\ UNCHANGED features
    /\ UNCHANGED << file, stdout, fetches, data, image_shape, sub_image_shape,
                    atom_positions, columns, tree_c, off_edge,
                    filtered_features, filtered_coordinates, not_classified,
                    scaled_features, labels_, labeled_image, sessionVars,
                    workflowVars >>

(* the mask, were the threshold exclusive *)
OffEdgeAbove(X) ==
    [i \in 1 .. Len(X) |-> LessF(<<MinNeighbors, 0, 1>>, Column(X[i], 5))]

(* line 412: features[:,5] >= 5 *)
OffEdge(X) ==
    [i \in 1 .. Len(X) |-> ~LessF(Column(X[i], 5), <<MinNeighbors, 0, 1>>)]

(* lines 411-413 *)
FilterCell ==
    /\ pc = "filter"
    /\ off_edge' = OffEdge(features)
    /\ filtered_features' = Masked(features, OffEdge(features))
    /\ pc' = "plot"
    /\ UNCHANGED << error, file, stdout, fetches, data, image_shape,
                    sub_image_shape, atom_positions, columns, tree_c, features,
                    filtered_coordinates, not_classified, scaled_features,
                    labels_, labeled_image, sessionVars, workflowVars >>

(* lines 429-443: line 436 keeps the coordinates of the retained points *)
PlotCell ==
    /\ pc = "plot"
    /\ filtered_coordinates' = Masked(atom_positions, off_edge)
    /\ pc' = "scale"
    /\ UNCHANGED << error, file, stdout, fetches, data, image_shape,
                    sub_image_shape, atom_positions, columns, tree_c, features,
                    off_edge, filtered_features, not_classified,
                    scaled_features, labels_, labeled_image, sessionVars,
                    workflowVars >>

(* lines 459-461: the scaler rejects an array of no rows *)
ScaleCell ==
    /\ pc = "scale"
    /\ IF filtered_features = <<>>
       THEN /\ Raise("ValueError")
            /\ UNCHANGED scaled_features
       ELSE /\ scaled_features' = MinMaxScale(filtered_features)
            /\ pc' = "pca"
            /\ UNCHANGED error
    /\ UNCHANGED << file, stdout, fetches, data, image_shape, sub_image_shape,
                    atom_positions, columns, tree_c, features, off_edge,
                    filtered_features, filtered_coordinates, not_classified,
                    labels_, labeled_image, sessionVars, workflowVars >>

(* lines 477-479: PCA(8) takes no more components than there are rows *)
PcaCell ==
    /\ pc = "pca"
    /\ IF Len(scaled_features) < pca_components
       THEN Raise("ValueError")
       ELSE pc' = "cluster" /\ UNCHANGED error
    /\ UNCHANGED << file, stdout, fetches, data, image_shape, sub_image_shape,
                    atom_positions, columns, tree_c, features, off_edge,
                    filtered_features, filtered_coordinates, not_classified,
                    scaled_features, labels_, labeled_image, sessionVars,
                    workflowVars >>

(* line 515: scaled_features[:, [1, 4, 5]] *)
Datafit(X) == [i \in 1 .. Len(X) |-> <<Column(X[i], 1), Column(X[i], 4), Column(X[i], 5)>>]

(* the labels the clustering may give the rows of datafit: one of          *)
(* n_clusters each.  Of these the model takes the labelings that use the   *)
(* first LabelBound labels and give equal rows the same label.             *)
Labelings(datafit) ==
    LET labels == 0 .. ((IF n_clusters < LabelBound THEN n_clusters ELSE LabelBound) - 1)
    IN  {[i \in 1 .. Len(datafit) |-> assignment[datafit[i]]] :
            assignment \in [Range(datafit) -> labels]}

(* lines 508-516: SpectralClustering(5) fitted to datafit; the labels are  *)
(* the library's choice                                                    *)
ClusterCell ==
    /\ pc = "cluster"
    /\ \E labels \in Labelings(Datafit(scaled_features)) : labels_' = labels
    /\ pc' = "overlay"
    /\ UNCHANGED << error, file, stdout, fetches, data, image_shape,
                    sub_image_shape, atom_positions, columns, tree_c, features,
                    off_edge, filtered_features, filtered_coordinates,
                    not_classified, scaled_features, labeled_image,
                    sessionVars, workflowVars >>

(* lines 539-545: line 541 keeps the coordinates of the points left out *)
OverlayCell ==
    /\ pc = "overlay"
    /\ not_classified' = Masked(atom_positions, Invert(off_edge))
    /\ pc' = "label"
    /\ UNCHANGED << error, file, stdout, fetches, data, image_shape,
                    sub_image_shape, atom_positions, columns, tree_c, features,
                    off_edge, filtered_features, filtered_coordinates,
                    scaled_features, labels_, labeled_image, sessionVars,
                    workflowVars >>

(* lines 570-575 *)
LabelCell ==
    /\ pc = "label"
    /\ labeled_image' = LabelImage(filtered_coordinates, labels_, sub_image_shape)
    /\ pc' = "done"
    /\ UNCHANGED << error, file, stdout, fetches, data, image_shape,
                    sub_image_shape, atom_positions, columns, tree_c, features,
                    off_edge, filtered_features, filtered_coordinates,
                    not_classified, scaled_features, labels_, sessionVars,
                    workflowVars >>

Init ==
    /\ Blank
    /\ pc = "download"
    /\ file \in FileStates
    /\ atom_positions = <<>>
    /\ columns = <<>>
    /\ tree_c = <<>>
    /\ call = NoCall

Next ==
    \/ DownloadCell
    \/ HashCell
    \/ LoadCell
    \/ ImageCell
    \/ ImageCellRaises
    \/ LocalizeCell
    \/ TreeCell
    \/ FeaturesCell
    \/ FilterCell
    \/ PlotCell
    \/ ScaleCell
    \/ PcaCell
    \/ ClusterCell
    \/ OverlayCell
    \/ LabelCell

Spec == Init /\ [][Next]_vars

----------------------------------------------------------------------------
(* Properties of the notebook run *)

(* the neighbour count of point i (1-based), column 5 of its feature row *)
Vertices(i) == Column(features[i], 5)[1]

InteriorSet == {i \in 1 .. Len(features) : Vertices(i) >= 5}

EdgeSet == {i \in 1 .. Len(features) : Vertices(i) < 5}

(* the j-th smallest element of a set of numbers *)
Nth(S, j) == CHOOSE i \in S : Cardinality({m \in S : m < i}) = j - 1

(* the elements of s at the positions S, in order *)
Picked(s, S) == [j \in 1 .. Cardinality(S) |-> s[Nth(S, j)]]

(* C5: once filtered, every detected point is in exactly one of the        *)
(* interior set (off_edge, count >= 5: so a point with 5) and the edge set *)
(* (not off_edge, count < 5: so a point with 4); the retained rows and     *)
(* coordinates are those of the interior points, not_classified those of   *)
(* the edge points, and only the interior rows are scaled and clustered.   *)
FilterPartitions ==
    /\ pc \in {"plot", "scale", "pca", "cluster", "overlay", "label", "done"} =>
          /\ Len(features) = Len(atom_positions)
          /\ Len(off_edge) = Len(features)
          /\ \A i \in 1 .. Len(features) :
                /\ off_edge[i] <=> i \in InteriorSet
                /\ ~off_edge[i] <=> i \in EdgeSet
                /\ Vertices(i) = 5 => off_edge[i]
                /\ Vertices(i) = 4 => ~off_edge[i]
          /\ filtered_features = Picked(features, InteriorSet)
    /\ pc \in {"scale", "pca", "cluster", "overlay", "label", "done"} =>
          filtered_coordinates = Picked(atom_positions, InteriorSet)
    /\ pc \in {"pca", "cluster", "overlay", "label", "done"} =>
          Len(scaled_features) = Cardinality(InteriorSet)
    /\ pc \in {"overlay", "label", "done"} =>
          Len(labels_) = Cardinality(InteriorSet)
    /\ pc \in {"label", "done"} =>
          /\ not_classified = Picked(atom_positions, EdgeSet)
          /\ Len(filtered_coordinates) + Len(not_classified) = Len(atom_positions)

(* C5 witness: a run has finished in which a point with exactly 5          *)
(* neighbours was retained and clustered and a point with exactly 4 was    *)
(* left unclassified                                                       *)
FiveKeptFourDropped ==
    /\ pc = "done"
    /\ \E i \in 1 .. Len(features) :
          Vertices(i) = 5 /\ off_edge[i] /\ atom_positions[i] \in Range(filtered_coordinates)
    /\ \E i \in 1 .. Len(features) :
          Vertices(i) = 4 /\ ~off_edge[i] /\ atom_positions[i] \in Range(not_classified)

(* the pixel at row y, column x, as a point *)
Pixel(x, y) == [x |-> x, y |-> y, h |-> 0]

(* C6: the label image has the shape of the sub-image and every pixel      *)
(* (row y, column x) carries the cluster label of an interior point whose  *)
(* distance to (x, y) is minimal among the interior points; no pixel is    *)
(* without a label and no edge point lends one.                            *)
LabelsOfNearestInterior ==
    pc = "done" =>
        LET interior == Picked(atom_positions, InteriorSet)
        IN  /\ Len(labeled_image) = sub_image_shape[1]
            /\ \A y \in 0 .. (sub_image_shape[1] - 1) :
                  /\ Len(At(labeled_image, y)) = sub_image_shape[2]
                  /\ \A x \in 0 .. (sub_image_shape[2] - 1) :
                        LET away == [m \in 1 .. Len(interior) |->
                                        Dist2(interior[m], Pixel(x, y))]
                        IN  \E j \in 1 .. Len(interior) :
                                /\ At(At(labeled_image, y), x) = labels_[j]
                                /\ \A m \in 1 .. Len(interior) :
                                      ~Less3(away[m], away[j])

(* C6 witness: a label image in which the pixel on the centre of the       *)
(* island and the pixel next to its site (1, 1) took different labels      *)
TwoLabelsPropagated ==
    /\ pc = "done"
    /\ Cardinality(InteriorSet) >= 2
    /\ not_classified # <<>>
    /\ At(At(labeled_image, 18), 20) # At(At(labeled_image, 27), 35)

(* C7: the hash cell changes nothing but the output: whatever the digest,  *)
(* it prints one line (the warning when the digest differs, "Hash is ok"   *)
(* when it matches), leaves the file in place, fetches nothing, raises     *)
(* nothing and hands over to the load cell, which reads that same file.    *)
HashMismatchOnlyWarns ==
    [][ /\ pc = "hash" =>
              /\ stdout' = Append(stdout, IF Sha256Sum(file) = ExpectedHash
                                          THEN "Hash is ok" ELSE WrongHash)
              /\ file' = file
              /\ fetches' = fetches
              /\ error' = NoRaise
              /\ pc' = "load"
        /\ pc = "load" /\ file \in {"genuine", "other"} =>
              /\ pc' = "image"
              /\ data' = file
              /\ file' = file
              /\ stdout' = stdout ]_vars

(* C7 witness: a run on a file of another digest printed the warning and   *)
(* went on to load and process that file to the end                        *)
WrongHashRunCompleted ==
    /\ pc = "done"
    /\ file = "other"
    /\ data = "other"
    /\ stdout[Len(stdout)] = WrongHash
    /\ error = NoRaise

(* C12: whatever the shape (H, W) of the image, the crop keeps all H rows  *)
(* and the 2*half_wx = 200 columns from W \div 2 - half_wx up to, not      *)
(* including, W \div 2 + half_wx, whatever H is.                           *)
CropCentredOnMidpoint ==
    pc \in {"tree", "features", "filter", "plot", "scale", "pca", "cluster",
            "overlay", "label", "done"} =>
        /\ sub_image_shape = <<image_shape[1], 2 * half_wx>>
        /\ SubImageColumns(image_shape) =
               <<image_shape[2] \div 2 - half_wx, image_shape[2] \div 2 + half_wx>>

----------------------------------------------------------------------------
(* Run after run: the kernel is restarted and the notebook run again from  *)
(* its first cell, the data folder left as the last run left it            *)

(* Restart and Run All, at any point of a run or after it.  The kernel's   *)
(* names and the cell outputs are gone; data/dataset.emd stays.  fetches   *)
(* counts the GETs of all runs; a run that would fetch once more than      *)
(* MaxFetches times is not started.                                        *)
Restart ==
    /\ pc \in {"hash", "load", "image", "localize", "tree", "aborted"}
    /\ fetches < MaxFetches \/ file # "absent"
    /\ pc' = "download"
    /\ error' = NoRaise
    /\ stdout' = <<>>
    /\ data' = "none"
    /\ image_shape' = <<0, 0>>
    /\ sub_image_shape' = <<0, 0>>
    /\ atom_positions' = <<>>
    /\ UNCHANGED << file, fetches, columns, tree_c, features, off_edge,
                    filtered_features, filtered_coordinates, not_classified,
                    scaled_features, labels_, labeled_image, sessionVars,
                    workflowVars >>

NextRuns ==
    \/ DownloadCell
    \/ HashCell
    \/ LoadCell
    \/ ImageCell
    \/ ImageCellRaises
    \/ LocalizeCell
    \/ Restart

SpecRuns == Init /\ [][NextRuns]_vars

(* C11: over any sequence of runs the download cell fetches only when it   *)
(* finds no file: a step that issues a GET or changes the file is a step   *)
(* of the download cell taken with the file absent, and with a file there  *)
(* (whole, wrong or cut short) the cell prints "Data already present",     *)
(* fetches nothing and leaves the file as it is.                           *)
DownloadNeverOverwrites ==
    [][ /\ fetches' # fetches \/ file' # file =>
              pc = "download" /\ file = "absent" /\ fetches' = fetches + 1
        /\ pc = "download" /\ file # "absent" =>
              /\ file' = file
              /\ fetches' = fetches
              /\ stdout' = Append(stdout, "Data already present")
              /\ pc' = "hash" ]_vars

(* C11 witness: a later run found the cut-short file an earlier run's      *)
(* failed fetch had left, and reported the data present                    *)
PartialFileKept ==
    /\ pc = "hash"
    /\ file = "partial"
    /\ fetches = 1
    /\ stdout = <<"Data already present">>

----------------------------------------------------------------------------
(* The end-to-end scenario: the cells from the tree to the filter, run on  *)
(* a synthetic lattice                                                     *)

InitLattice ==
    /\ Blank
    /\ pc = "tree"
    /\ file = "genuine"
    /\ atom_positions \in Lattices
    /\ columns = <<>>
    /\ tree_c = <<>>
    /\ call = NoCall

NextLattice ==
    \/ TreeCell
    \/ FeaturesCell
    \/ FilterCell
    \/ PlotCell

SpecLattice == InitLattice /\ [][NextLattice]_vars

(* the ring of the lattice a point lies on: the inverse of Site *)
RingOf(point) == Ring((point.x - 20 - point.h) \div 10, point.h \div 5)

(* C9: on the 37-point hexagonal lattice of spacing 10, with radius 11 and *)
(* the default k, every point the >= 5 filter retains has vertices = 6,    *)
(* and every point of the lattice boundary has fewer than 5 and is not     *)
(* retained.                                                               *)
LatticeInteriorHasSix ==
    pc \in {"plot", "scale"} /\ atom_positions = Patch(3) =>
        /\ Len(features) = 37
        /\ \A i \in 1 .. 37 :
              /\ off_edge[i] => Column(features[i], 5) = <<6, 0, 1>>
              /\ RingOf(atom_positions[i]) = 3 =>
                    /\ Column(features[i], 5)[1] < 5
                    /\ ~off_edge[i]
        /\ \A i \in 1 .. Len(filtered_features) :
              Column(filtered_features[i], 5) = <<6, 0, 1>>
        /\ Len(filtered_features) = Cardinality({i \in 1 .. 37 : off_edge[i]})

(* C9 witness: the lattice has been filtered: the 19 points of its centre  *)
(* and first two rings were retained, the 18 of its boundary dropped       *)
LatticeFiltered ==
    /\ pc = "scale"
    /\ atom_positions = Patch(3)
    /\ Len(filtered_features) = 19
    /\ Len(filtered_coordinates) = 19
    /\ Cardinality({i \in 1 .. 37 : ~off_edge[i]}) = 18

----------------------------------------------------------------------------
(* An interactive session: the index is rebuilt from whatever was detected *)
(* last, and get_nn_features is called with arguments of the user's own    *)

(* lines 307-308, run again after another localisation *)
RebuildTree(found) ==
    /\ pc = "session"
    /\ atom_positions' = found
    /\ columns' = found
    /\ tree_c' = found
    /\ UNCHANGED << pc, error, file, stdout, fetches, data, image_shape,
                    sub_image_shape, features, off_edge, filtered_features,
                    filtered_coordinates, not_classified, scaled_features,
                    labels_, labeled_image, sessionVars, workflowVars >>

(* line 355 of every pass entered: the indices coordinates is indexed with *)
Lookups(tree, coordinates, max_distance, k, passes) ==
    LET nearest_neighbor_indices ==
            NearestNeighborIndices(tree, coordinates, max_distance, k)
    IN  [p \in 1 .. passes |-> DropNoPoint(nearest_neighbor_indices[p], coordinates)]

(* line 367 of every pass of a call that returned *)
Increments(tree, coordinates, max_distance, k, rows) ==
    LET nearest_neighbor_indices ==
            NearestNeighborIndices(tree, coordinates, max_distance, k)
    IN  [p \in 1 .. rows |->
            FeatureRow(coordinates, p - 1, nearest_neighbor_indices[p]).angle_increments]

(* get_nn_features(call.coordinates, call.max_distance, call.k), lines     *)
(* 347-382, against the index as it stands                                 *)
CallCell ==
    /\ pc = "session"
    /\ LET result == GetNNFeatures(tree_c, call.coordinates, call.max_distance, call.k)
       IN  /\ ret' = result
           /\ lookups' = Lookups(tree_c, call.coordinates, call.max_distance,
                                 call.k, result.passes)
           /\ increments' = Increments(tree_c, call.coordinates, call.max_distance,
                                       call.k, Len(result.value))
    /\ queried' = tree_c
    /\ UNCHANGED << notebookVars, call, workflowVars >>

InitCalls ==
    /\ Blank
    /\ pc = "session"
    /\ file = "genuine"
    /\ atom_positions \in SessionSets \ {<<>>}
    /\ columns = atom_positions
    /\ tree_c = atom_positions
    /\ call \in [coordinates : SessionSets, max_distance : Radii, k : Caps]

NextCalls ==
    \/ \E found \in SessionSets \ {<<>>} : RebuildTree(found)
    \/ CallCell

SpecCalls == InitCalls /\ [][NextCalls]_vars

----------------------------------------------------------------------------
(* Properties of get_nn_features, stated over the session's call cell *)

(* the call cell has been executed *)
Called == ret.raised # "not run"

(* the index the call queried was built from the coordinates it was given *)
OwnIndex == queried = call.coordinates

(* the points of P other than point i strictly nearer to it than r *)
Neighbors(P, i, r) ==
    {j \in Indices(P) \ {i} : Less3(Dist2(At(P, j), At(P, i)), <<r * r, 0>>)}

(* C1: a call get_nn_features(P, r, k), k >= 2, the index built from P,    *)
(* returns an array of one row per point of P and stores in                *)
(* column 5 of every row i the number of points of P other than i that are *)
(* strictly nearer to point i than r, and that number is at most k - 1.    *)
VerticesCountNeighbors ==
    Called /\ OwnIndex /\ call.k >= 2 =>
        /\ ret.raised = NoRaise
        /\ Len(ret.value) = Len(call.coordinates)
        /\ \A i \in Indices(call.coordinates) :
              LET n == Cardinality(Neighbors(call.coordinates, i, call.max_distance))
              IN  /\ Column(At(ret.value, i), 5) = <<n, 0, 1>>
                  /\ n <= call.k - 1

(* C2: in a call that returns, the index built from its coordinates, the   *)
(* angle increments of every point with at least 2 neighbours sum to 360   *)
(* degrees (the first angle + 360 is appended before the differences are   *)
(* taken), and the centre of the hexagon, its 6 neighbours at 0, 60, ...,  *)
(* 300 degrees, gets mean increment 60 and standard deviation 0.           *)
IncrementsWrapAround ==
    Called /\ OwnIndex /\ ret.raised = NoRaise =>
        /\ \A p \in 1 .. Len(ret.value) :
              Column(ret.value[p], 5)[1] >= 2 => Sum3(increments[p]) = <<360, 0>>
        /\ call.coordinates = Hexagon /\ call.max_distance = DefaultMaxDistance
              /\ call.k = DefaultK =>
                  /\ Column(ret.value[1], 2) = <<60, 0, 1>>
                  /\ Column(ret.value[1], 3) = <<0, 0, 1>>

(* the call's input is empty, or some point of it has no neighbour within  *)
(* the search radius                                                       *)
Degenerate ==
    \/ call.coordinates = <<>>
    \/ /\ OwnIndex
       /\ \E i \in Indices(call.coordinates) :
              Neighbors(call.coordinates, i, call.max_distance) = {}

(* C3: get_nn_features does not fail on empty or degenerate input: a call  *)
(* (k at least 2) with an empty point set, or with a point set some point  *)
(* of which has no neighbour within the radius, returns an array of one    *)
(* row of 8 columns per point and raises nothing.                          *)
DegenerateInputReturns ==
    Called /\ Degenerate /\ call.k >= 2 =>
        /\ ret.raised = NoRaise
        /\ Len(ret.value) = Len(call.coordinates)
        /\ \A p \in 1 .. Len(ret.value) : Len(ret.value[p]) = 8

(* C4: every index a call uses to look up neighbour coordinates is the     *)
(* index of a point of coordinates (0 <= index < number of points) that    *)
(* lies within max_distance of the point of the pass, and is never the     *)
(* "no point found" value of the index queried (its number of points).     *)
LookupsAreNeighbors ==
    Called =>
        \A p \in 1 .. Len(lookups) : \A j \in 1 .. Len(lookups[p]) :
            LET index == lookups[p][j]
            IN  /\ index \in Indices(call.coordinates)
                /\ index # Len(queried)
                /\ Less3(Dist2(At(call.coordinates, index), call.coordinates[p]),
                         <<call.max_distance * call.max_distance, 0>>)

(* C8: two executions of the same call (same coordinates, max_distance and *)
(* k) that both return, return identical arrays, whatever point set the    *)
(* shared index tree_c was rebuilt from in between.                        *)
ResultOfArgumentsOnly ==
    [][ret.raised = NoRaise /\ ret'.raised = NoRaise => ret'.value = ret.value]_vars

----------------------------------------------------------------------------
(* The workflow of build_docker_image.yaml *)

Version(n) == <<"v", n>>

Latest == <<"latest", 0>>

(* what jq prints for a reply without tag_name *)
Null == <<"null", 0>>

Tags == {Version(n) : n \in 1 .. MaxTag}

(* git push of a new tag: lines 3-6, the push triggers a run *)
PushTag(t) ==
    /\ pc = "repository"
    /\ t \notin repo_tags
    /\ repo_tags' = repo_tags \cup {t}
    /\ pending' = pending \cup {t}
    /\ UNCHANGED << notebookVars, sessionVars, latest_release,
                    registry, last_run >>

(* a release is published on a tag of the repository: it is what line 16   *)
(* will be answered with                                                   *)
PublishRelease(t) ==
    /\ pc = "repository"
    /\ t \in repo_tags
    /\ latest_release # t
    /\ latest_release' = t
    /\ UNCHANGED << notebookVars, sessionVars, repo_tags,
                    pending, registry, last_run >>

(* lines 13-16 *)
ReleaseTag == IF latest_release = NoTag THEN Null ELSE latest_release

(* lines 11-45, the run the push of t triggered.  The checkout of a ref    *)
(* the repository does not have fails the job; otherwise the image is      *)
(* built from that ref and pushed under both tags.                         *)
RunWorkflow(t) ==
    /\ pc = "repository"
    /\ t \in pending
    /\ pending' = pending \ {t}
    /\ IF ReleaseTag \in repo_tags
       THEN /\ registry' = registry \o << [tag |-> Latest, ref |-> ReleaseTag],
                                          [tag |-> ReleaseTag, ref |-> ReleaseTag] >>
            /\ last_run' = [trigger |-> t, releasetag |-> ReleaseTag,
                            outcome |-> "success",
                            published |-> {Latest, ReleaseTag}]
       ELSE /\ last_run' = [trigger |-> t, releasetag |-> ReleaseTag,
                            outcome |-> "failure", published |-> {}]
            /\ UNCHANGED registry
    /\ UNCHANGED << notebookVars, sessionVars, repo_tags,
                    latest_release >>

InitCI ==
    /\ Blank
    /\ pc = "repository"
    /\ file = "absent"
    /\ atom_positions = <<>>
    /\ columns = <<>>
    /\ tree_c = <<>>
    /\ call = NoCall

NextCI ==
    \/ \E t \in Tags : PushTag(t)
    \/ \E t \in Tags : PublishRelease(t)
    \/ \E t \in Tags : RunWorkflow(t)

SpecCI == InitCI /\ [][NextCI]_vars

(* C10: every run of the workflow, triggered by the push of tag T, builds  *)
(* an image and publishes it under exactly the two tags latest and T, the  *)
(* ref checked out being T.                                                *)
RunPublishesPushedTag ==
    last_run.outcome # "none" =>
        /\ last_run.outcome = "success"
        /\ last_run.releasetag = last_run.trigger
        /\ last_run.published = {Latest, last_run.trigger}

============================================================================
